---- MODULE Spec2Model ----
(***************************************************************************)
(* A model of pycurlbrowser: the canned-response registry and its best-fit *)
(* lookup, the live fetch with its retry loop, the lazy document tree and  *)
(* the form selection / submission operations of Browser.                  *)
(*                                                                         *)
(* Representation of Python values:                                        *)
(*   - an optional value is a sequence of length at most one: None is <<>> *)
(*     and x is <<x>>;                                                     *)
(*   - an encoded payload (a str) is the non-empty sequence of its         *)
(*     '&'-separated tokens ('' is <<"">>), so a payload that is None is   *)
(*     <<>>; its length is the sum of the token lengths plus the '&'s;     *)
(*   - a url is [path, query]: path is the text before the first '?',      *)
(*     query the payload after it (<<>> when the url has no '?');          *)
(*   - a dict is a function whose domain is a set of strings.              *)
(***************************************************************************)
EXTENDS Integers, Sequences, FiniteSets, TLC

\* ------------------------------------------------------------------ bounds
MaxRetries == 1
MaxCans == 2
MaxRefs == 3

\* -------------------------------------------------------- optional values
None == <<>>
Some(x) == <<x>>
Get(o) == o[1]

EmptyDict == [k \in {} |-> ""]

\* ------------------------------------------------------------ str helpers
RECURSIVE SumLen(_)
SumLen(p) == IF p = <<>> THEN 0 ELSE Len(Head(p)) + SumLen(Tail(p))

\* len(s) of an encoded payload
StrLen(p) == SumLen(p) + (Len(p) - 1)

Abs(n) == IF n < 0 THEN 0 - n ELSE n

\* str.upper() on the method names in use
Upper(m) == CASE m = "get" -> "GET"
              [] m = "post" -> "POST"
              [] OTHER -> m

\* urllib.quote_plus on the values in use
quote_plus(s) == CASE s = "Save it" -> "Save+it"
                   [] OTHER -> s

\* iteration order of a dict's keys (one fixed order for every dict)
KeyOrder == <<"q", "sort", "user", "color", "save", "delete", "go">>

RECURSIVE urlencode_from(_, _)
urlencode_from(d, i) ==
    IF i > Len(KeyOrder) THEN <<>>
    ELSE IF KeyOrder[i] \in DOMAIN d
         THEN <<KeyOrder[i] \o "=" \o quote_plus(d[KeyOrder[i]])>>
              \o urlencode_from(d, i + 1)
         ELSE urlencode_from(d, i + 1)

\* urlencode(dict): 'k=v' pairs joined by '&'; an empty dict gives ''
urlencode(d) == IF DOMAIN d = {} THEN <<"">> ELSE urlencode_from(d, 1)

\* A data argument: [kind |-> "none" | "dict" | "str", d |-> dict, s |-> str]
NoData == [kind |-> "none", d |-> EmptyDict, s |-> <<>>]
DictData(d) == [kind |-> "dict", d |-> d, s |-> <<>>]
StrData(s) == [kind |-> "str", d |-> EmptyDict, s |-> s]

escape_data(data, escaped) ==
    IF data.kind # "none" /\ ~escaped
    THEN urlencode(data.d)
    ELSE IF data.kind = "none" THEN None ELSE data.s

\* ------------------------------------------------------ best-fit matching
setify(s) == {s[i] : i \in DOMAIN s}

post_data_present(d_ref, d_in) ==
    Cardinality(setify(d_ref) \ setify(d_in)) = 0

\* the keys of diffs: the references every token of which is in d_in
post_fit_diffs(d_in, d_ref) == {d \in d_ref : post_data_present(d, d_in)}

\* the orders diffs.keys() can list a set of keys in (the dict's order, which
\* the code does not control)
KeyOrders(keys) ==
    {e \in [1..Cardinality(keys) -> keys] :
        \A i, j \in DOMAIN e : e[i] = e[j] => i = j}

\* list.sort(cmp=...) is stable: x goes behind every element that does not
\* compare greater
sort_insert(sorted, x, diffs) ==
    LET behind == {i \in DOMAIN sorted : diffs[sorted[i]] <= diffs[x]}
    IN SubSeq(sorted, 1, Cardinality(behind)) \o <<x>>
         \o SubSeq(sorted, Cardinality(behind) + 1, Len(sorted))

RECURSIVE sort_cmp(_, _, _)
sort_cmp(e, n, diffs) ==
    IF n = 0 THEN <<>> ELSE sort_insert(sort_cmp(e, n - 1, diffs), e[n], diffs)

\* the values e[0] can take, one for each order of the keys; {} is the
\* IndexError of e[0] on an empty list
post_best_fit_worst(d_in, d_ref) ==
    LET comp == StrLen(d_in)
        diffs == [d \in post_fit_diffs(d_in, d_ref) |-> Abs(StrLen(d) - comp)]
    IN {sort_cmp(e, Len(e), diffs)[Len(e)] : e \in KeyOrders(DOMAIN diffs) \ {<<>>}}

post_best_fit(d_in, d_ref) ==
    LET comp == StrLen(d_in)
        diffs == [d \in post_fit_diffs(d_in, d_ref) |-> Abs(StrLen(d) - comp)]
    IN {sort_cmp(e, Len(e), diffs)[1] : e \in KeyOrders(DOMAIN diffs) \ {<<>>}}

Key(url, method, data) == [url |-> url, method |-> method, data |-> data]

canned_key_partial_subset(url, method, sample) ==
    {k.data : k \in {s \in sample : s.url = url /\ s.method = method}}

\* select_best_can: [res |-> "can" | a raised exception, keys |-> the keys the
\* lookup can end on]
select_best_can(url, method, data, cans) ==
    IF data = None
    THEN IF Key(url, method, data) \in DOMAIN cans
         THEN [res |-> "can", keys |-> {Key(url, method, data)}]
         ELSE [res |-> "KeyError", keys |-> {}]
    ELSE LET refs == canned_key_partial_subset(url, method, DOMAIN cans)
         IN IF None \in refs
            THEN [res |-> "AttributeError", keys |-> {}]
            ELSE IF post_best_fit(data, refs) = {}
                 THEN [res |-> "IndexError", keys |-> {}]
                 ELSE [res |-> "can",
                       keys |-> {Key(url, method, d) :
                                   d \in post_best_fit(data, refs)}]

\* ------------------------------------------------------------ the fixture
\* urls
U(path, query) == [path |-> path, query |-> query]
UrlSearch == U("http://x/search", None)
UrlSearchCat == U("http://x/search", <<"q=cat">>)

\* page bodies
PageCats == "<html><title>Cats</title></html>"
PageForms == "<html><form>*4</html>"
Partial == "<ht"

\* CannedResponse objects; CannedResponse() is CannedResponse.__init__
CannedResponse == [code |-> 200, exception |-> None, roundtrip |-> 0, src |-> ""]
CanCats == [CannedResponse EXCEPT !.src = PageCats]
CanForms == [CannedResponse EXCEPT !.src = PageForms, !.roundtrip = 5]
CanKeyError == [CannedResponse EXCEPT !.exception = Some("KeyError")]
CanIOError == [CannedResponse EXCEPT !.exception = Some("IOError")]

\* the payloads given to add_canned_response and go
CatSortDict == [k \in {"q", "sort"} |-> IF k = "q" THEN "cat" ELSE "asc"]
ArgNone == [data |-> NoData, escaped |-> FALSE]
ArgCat == [data |-> StrData(<<"q=cat">>), escaped |-> TRUE]
ArgCatSort == [data |-> DictData(CatSortDict), escaped |-> FALSE]
ArgSortCat == [data |-> StrData(<<"sort=asc", "q=cat">>), escaped |-> TRUE]

\* the calls of add_canned_response and of go a test makes
Call(can, url, method, arg) == [can |-> can, url |-> url, method |-> method, arg |-> arg]
Registrations ==
    { Call(CanForms, UrlSearch, "GET", ArgNone),
      Call(CanCats, UrlSearch, "GET", ArgCat),
      Call(CanCats, UrlSearch, "POST", ArgCat),
      Call(CanForms, UrlSearch, "POST", ArgCatSort),
      Call(CanCats, UrlSearch, "POST", ArgSortCat),
      Call(CanKeyError, UrlSearch, "POST", ArgNone),
      Call(CanIOError, UrlSearchCat, "GET", ArgNone) }
Navigations ==
    { Call(CannedResponse, UrlSearch, "GET", ArgNone),
      Call(CannedResponse, UrlSearch, "GET", ArgCat),
      Call(CannedResponse, UrlSearch, "GET", ArgCatSort),
      Call(CannedResponse, UrlSearch, "POST", ArgNone),
      Call(CannedResponse, UrlSearch, "POST", ArgCat),
      Call(CannedResponse, UrlSearch, "post", ArgCatSort),
      Call(CannedResponse, UrlSearchCat, "GET", ArgNone) }

\* what one curl.perform() can do: succeed with a page, fail before any byte
\* arrives, or fail after part of the body was handed to the write callback
PerformOk == [ok |-> TRUE, err |-> "", body |-> PageForms, code |-> 200]
PerformE1 == [ok |-> FALSE, err |-> "E1", body |-> "", code |-> 0]
PerformE2 == [ok |-> FALSE, err |-> "E2", body |-> Partial, code |-> 0]
Performs == {PerformOk, PerformE1, PerformE2}
Scripts == [1..(MaxRetries + 1) -> Performs]

\* lxml's view of a page: its forms, its links and its title
Button(name, value) == [name |-> name, value |-> value]
Select(name, options) == [name |-> name, options |-> options]
Option(text, value) == [text |-> text, value |-> value]
FormEdit ==
    [name |-> "edit", method |-> "POST", action |-> None,
     fields |-> [k \in {"q"} |-> "cat"], selects |-> <<>>,
     submits |-> <<Button(Some("save"), Some("Save it")),
                   Button(Some("delete"), None)>>]
FormFind ==
    [name |-> "find", method |-> "GET", action |-> Some(UrlSearch),
     fields |-> [k \in {"q"} |-> "cat"],
     selects |-> <<Select("sort", <<Option("Ascending", "asc"),
                                    Option("Descending", "desc")>>)>>,
     submits |-> <<Button(Some("go"), Some("Go"))>>]
FormBare ==
    [name |-> "bare", method |-> "POST", action |-> Some(UrlSearch),
     fields |-> [k \in {"q"} |-> "cat"], selects |-> <<>>,
     submits |-> <<>>]
FormBroken ==
    [name |-> "broken", method |-> "POST", action |-> Some(UrlSearch),
     fields |-> [k \in {"user"} |-> ""],
     selects |-> <<Select("color", <<>>)>>,
     submits |-> <<Button(None, Some("Send"))>>]

\* lxml.html.fromstring(src): [ok, forms, links, title]; an empty document
\* is a ParserError
NoLinks == [k \in {} |-> UrlSearch]
fromstring(text) ==
    CASE text = "" -> [ok |-> FALSE, forms |-> <<>>, links |-> NoLinks, title |-> None]
      [] text = PageForms ->
           [ok |-> TRUE, forms |-> <<FormEdit, FormFind, FormBare, FormBroken>>,
            links |-> [k \in {"next"} |-> UrlSearch], title |-> None]
      [] text = PageCats ->
           [ok |-> TRUE, forms |-> <<>>, links |-> NoLinks, title |-> Some("Cats")]
      [] OTHER -> [ok |-> TRUE, forms |-> <<>>, links |-> NoLinks, title |-> None]

\* ------------------------------------------------------------------ state
VARIABLES
    cans,        \* Browser._canned_responses: key -> CannedResponse
    offline,     \* Browser.offline
    retries,     \* Browser.retries
    src,         \* the content of Browser._buf
    tree,        \* Browser._tree: None or [src, base]
    form,        \* Browser._form: None or the index of the form in the tree
    form_data,   \* Browser._form_data
    roundtrip,   \* Browser._roundtrip
    canned_url,  \* Browser.canned_url
    curl,        \* the options and info of Browser._curl
    last         \* the last call and how it ended

vars == <<cans, offline, retries, src, tree, form, form_data, roundtrip,
          canned_url, curl, last>>

\* the record of a call: what was asked, what the lookup found, what the
\* transport was made to do, and how the call ended
NoCall ==
    [op |-> "init", ok |-> TRUE, exc |-> "", code |-> 0,
     url |-> None, method |-> "", data |-> None, rurl |-> None,
     can |-> None, live |-> FALSE, trace |-> <<>>, budget |-> 0,
     built |-> FALSE, button |-> None, refs |-> {}, fit |-> None]

Returned(op) == [NoCall EXCEPT !.op = op]
Raised(op, exc) == [NoCall EXCEPT !.op = op, !.ok = FALSE, !.exc = exc]

\* Browser.reset
reset == [tree |-> None, form |-> None, form_data |-> EmptyDict, roundtrip |-> None]

\* Browser.__init__(url=None)
Init ==
    /\ cans = EmptyDict
    /\ offline = FALSE
    /\ retries = 0
    /\ src = ""
    /\ tree = reset.tree
    /\ form = reset.form
    /\ form_data = reset.form_data
    /\ roundtrip = reset.roundtrip
    /\ canned_url = None
    /\ curl = [CUSTOMREQUEST |-> None, POSTFIELDS |-> None, URL |-> None,
               EFFECTIVE_URL |-> None, NOBODY |-> 0]
    /\ last = NoCall

\* -------------------------------------------------------------- navigation
\* Browser._setup_data: the url and data the lookup and the fetch use, and
\* the options set on the curl handle c
setup_data(url, method, data, escaped, c) ==
    LET d == escape_data(data, escaped)
        c1 == [c EXCEPT !.CUSTOMREQUEST = Some(method)]
    IN IF d # None
       THEN IF method = "GET"
            THEN [url |-> U(url.path, IF url.query # None THEN url.query \o d ELSE d),
                  data |-> d, curl |-> c1]
            ELSE [url |-> url, data |-> d, curl |-> [c1 EXCEPT !.POSTFIELDS = d]]
       ELSE [url |-> url, data |-> d, curl |-> c1]

\* How a go() ends: the outcome, the new content of the buffer, whether
\* reset() ran and what it was followed by, and the record of the call
GoResult(s) ==
    [ok |-> FALSE, exc |-> "", code |-> 0, src |-> "", reset |-> FALSE,
     roundtrip |-> None, canned_url |-> canned_url, curl |-> s.curl,
     rurl |-> Some(s.url), data |-> s.data, can |-> None, live |-> FALSE,
     trace |-> <<>>]

\* the replay without the call of reset()
setup_canned_response_no_reset(s, key) ==
    LET can == cans[key]
    IN [GoResult(s) EXCEPT !.ok = TRUE, !.code = can.code, !.src = can.src,
                           !.canned_url = Some(s.url), !.can = Some(key)]

\* Browser._setup_canned_response
setup_canned_response(s, key) ==
    LET can == cans[key]
    IN [GoResult(s) EXCEPT !.ok = TRUE, !.code = can.code, !.src = can.src,
                           !.reset = TRUE, !.roundtrip = Some(can.roundtrip),
                           !.canned_url = Some(s.url), !.can = Some(key)]

\* the n-th outcome of the transport
Outcome(outs, n) == IF n \in DOMAIN outs THEN outs[n] ELSE outs[Len(outs)]

\* the loop with the test `retries > 0`: one attempt too few
RECURSIVE perform_loop_short(_, _, _, _)
perform_loop_short(n, exception, outs, done) ==
    IF n > 0 /\ exception # None
    THEN LET o == Outcome(outs, Len(done) + 1)
         IN perform_loop_short(n - 1, IF o.ok THEN None ELSE Some(o.err), outs,
                               Append(done, o))
    ELSE [exception |-> exception, trace |-> done]

\* the while loop of Browser._setup_http_response: n is the local retries,
\* done the perform() calls made so far
RECURSIVE perform_loop(_, _, _, _)
perform_loop(n, exception, outs, done) ==
    IF n >= 0 /\ exception # None
    THEN LET o == Outcome(outs, Len(done) + 1)
         IN perform_loop(n - 1, IF o.ok THEN None ELSE Some(o.err), outs,
                         Append(done, o))
    ELSE [exception |-> exception, trace |-> done]

RECURSIVE Written(_)
Written(trace) == IF trace = <<>> THEN "" ELSE Head(trace).body \o Written(Tail(trace))

\* Browser._setup_http_response; the clock ticks once per perform(), and with
\* the option NOBODY set the transport hands no byte to the write callback
setup_http_response(s, key, outs) ==
    LET loop == perform_loop(retries, Some("Dummy exception"), outs, <<>>)
        n == Len(loop.trace)
        c == [s.curl EXCEPT !.URL = Some(s.url),
                            !.EFFECTIVE_URL = IF n > 0 THEN Some(s.url) ELSE @]
        r == [GoResult(s) EXCEPT !.live = TRUE, !.trace = loop.trace, !.can = key,
                                 !.curl = c,
                                 !.src = IF s.curl.NOBODY = 1 THEN ""
                                         ELSE Written(loop.trace)]
    IN IF loop.exception # None
       THEN [r EXCEPT !.exc = Get(loop.exception)]
       ELSE [r EXCEPT !.ok = TRUE, !.code = loop.trace[n].code, !.reset = TRUE,
                      !.roundtrip = Some(n)]

\* the except KeyError clause of Browser.go
go_except_KeyError(s, key) ==
    IF offline
    THEN {[GoResult(s) EXCEPT !.exc = "LookupError", !.can = key]}
    ELSE {setup_http_response(s, key, outs) : outs \in Scripts}

\* the try clause of Browser.go once the lookup ended on key
go_try_can(s, key) ==
    IF cans[key].exception # None
    THEN IF Get(cans[key].exception) = "KeyError"
         THEN go_except_KeyError(s, Some(key))
         ELSE {[GoResult(s) EXCEPT !.exc = Get(cans[key].exception),
                                   !.can = Some(key)]}
    ELSE {setup_canned_response(s, key)}

\* Browser.go with the options c on the curl handle: the ways the call can end
go_from(c, url, method, data, escaped) ==
    LET s == setup_data(url, Upper(method), data, escaped, c)
        sel == select_best_can(s.url, Upper(method), s.data, cans)
    IN IF sel.res = "can"
       THEN UNION {go_try_can(s, key) : key \in sel.keys}
       ELSE IF sel.res = "KeyError"
            THEN go_except_KeyError(s, None)
            ELSE {[GoResult(s) EXCEPT !.exc = sel.res]}

\* Browser.go
go(url, method, data, escaped) == go_from(curl, url, method, data, escaped)

\* the state after a go() that ended as r, called with tree tr and form
\* data fd in place, as part of the call recorded in call
Navigate(r, tr, fd, call, url, method) ==
    /\ src' = r.src
    /\ tree' = IF r.reset THEN reset.tree ELSE tr
    /\ form' = IF r.reset THEN reset.form ELSE form
    /\ form_data' = IF r.reset THEN reset.form_data ELSE fd
    /\ roundtrip' = IF r.reset THEN r.roundtrip ELSE roundtrip
    /\ canned_url' = r.canned_url
    /\ curl' = r.curl
    /\ last' = [call EXCEPT !.ok = r.ok, !.exc = r.exc, !.code = r.code,
                            !.url = Some(url), !.method = method,
                            !.data = r.data, !.rurl = r.rurl, !.can = r.can,
                            !.live = r.live, !.trace = r.trace,
                            !.budget = retries]
    /\ UNCHANGED <<cans, offline, retries>>

\* ---------------------------------------------------------------- actions
\* Browser.add_canned_response
add_canned_response(can, url, method, data, escaped) ==
    LET key == Key(url, method, escape_data(data, escaped))
    IN /\ Cardinality(DOMAIN cans \cup {key}) <= MaxCans
       /\ cans' = [k \in DOMAIN cans \cup {key} |-> IF k = key THEN can ELSE cans[k]]
       /\ last' = Returned("add_canned_response")
       /\ UNCHANGED <<offline, retries, src, tree, form, form_data, roundtrip,
                      canned_url, curl>>

\* browser.offline = b
set_offline(b) ==
    /\ offline # b
    /\ offline' = b
    /\ last' = Returned("set_offline")
    /\ UNCHANGED <<cans, retries, src, tree, form, form_data, roundtrip,
                   canned_url, curl>>

\* browser.retries = n
set_retries(n) ==
    /\ retries # n
    /\ retries' = n
    /\ last' = Returned("set_retries")
    /\ UNCHANGED <<cans, offline, src, tree, form, form_data, roundtrip,
                   canned_url, curl>>

\* browser.go(url, method, data, escaped)
Go(url, method, data, escaped) ==
    \E r \in go(url, method, data, escaped) :
        Navigate(r, tree, form_data, Returned("go"), url, method)

\* a call that ends without navigating: it returns or raises (ok, exc), with
\* tree tr, form fm and form data fd left in place
Finish(call, tr, fm, fd) ==
    /\ tree' = tr
    /\ form' = fm
    /\ form_data' = fd
    /\ last' = call
    /\ UNCHANGED <<cans, offline, retries, src, roundtrip, canned_url, curl>>

\* the parse without the test of self._tree: every call builds a tree
parse_tree_uncached ==
    IF fromstring(src).ok
    THEN [ok |-> TRUE, built |-> TRUE,
          tree |-> Some([src |-> src, base |-> curl.EFFECTIVE_URL])]
    ELSE [ok |-> FALSE, tree |-> tree, built |-> FALSE]

\* Browser.parse: [ok, tree, built]; fromstring raises on an empty document
parse_tree ==
    IF tree # None
    THEN [ok |-> TRUE, tree |-> tree, built |-> FALSE]
    ELSE IF fromstring(src).ok
         THEN [ok |-> TRUE, built |-> TRUE,
               tree |-> Some([src |-> src, base |-> curl.EFFECTIVE_URL])]
         ELSE [ok |-> FALSE, tree |-> tree, built |-> FALSE]

\* the document of a tree
Doc(tr) == fromstring(Get(tr).src)

\* browser.parse()
parse ==
    LET p == parse_tree
    IN Finish(IF p.ok THEN [Returned("parse") EXCEPT !.built = p.built]
                      ELSE Raised("parse", "ParserError"),
              p.tree, form, form_data)

\* the failure of `assert self._form is not None, "...%s" % self.forms`: the
\* message is built from self.forms, which parses the page
assert_form(op) ==
    LET p == parse_tree
    IN Finish(IF p.ok THEN [Raised(op, "AssertionError: A form must be selected")
                              EXCEPT !.built = p.built]
                      ELSE Raised(op, "ParserError"),
              p.tree, form, form_data)

\* A selector: None, an int or a str
SelNone == [kind |-> "none", i |-> 0, s |-> ""]
SelInt(i) == [kind |-> "int", i |-> i, s |-> ""]
SelStr(s) == [kind |-> "str", i |-> 0, s |-> s]

\* lst[i] for a Python list held as a sequence: the position in the sequence,
\* or 0 for an IndexError
ListIndex(lst, i) ==
    IF i >= 0 /\ i < Len(lst) THEN i + 1
    ELSE IF i < 0 /\ i >= 0 - Len(lst) THEN Len(lst) + i + 1
    ELSE 0

\* the first of the positions in matches (the [...][0] of a list
\* comprehension), or 0 for an IndexError
FirstIndex(matches) ==
    IF matches = {} THEN 0
    ELSE CHOOSE n \in matches : \A m \in matches : n <= m

\* the for loop of form_select over form_dropdowns, from the n-th select on:
\* form_fill_dropdown(d) takes nodes[0], which fails on a select without option
RECURSIVE fill_dropdowns(_, _, _)
fill_dropdowns(selects, n, fd) ==
    IF n > Len(selects) THEN [ok |-> TRUE, form_data |-> fd]
    ELSE IF selects[n].options = <<>> THEN [ok |-> FALSE, form_data |-> fd]
    ELSE fill_dropdowns(selects, n + 1,
                        [k \in DOMAIN fd \cup {selects[n].name} |->
                            IF k = selects[n].name THEN selects[n].options[1].value
                            ELSE fd[k]])

\* dict.update
Update(d, e) == [k \in DOMAIN d \cup DOMAIN e |-> IF k \in DOMAIN e THEN e[k] ELSE d[k]]

\* browser.form_select(idx)
form_select(idx) ==
    LET p == parse_tree
    IN IF ~p.ok
       THEN Finish(Raised("form_select", "ParserError"), p.tree, form, form_data)
       ELSE LET forms == Doc(p.tree).forms
                n == IF idx.kind = "int" THEN ListIndex(forms, idx.i)
                     ELSE FirstIndex({i \in DOMAIN forms : forms[i].name = idx.s})
                call == [Returned("form_select") EXCEPT !.built = p.built]
            IN IF idx.kind = "none"
               THEN Finish([call EXCEPT !.ok = FALSE, !.exc = "TypeError"],
                           p.tree, form, form_data)
               ELSE IF n = 0
               THEN Finish([call EXCEPT !.ok = FALSE, !.exc = "IndexError"],
                           p.tree, form, form_data)
               ELSE LET filled == fill_dropdowns(forms[n].selects, 1, forms[n].fields)
                    IN Finish(IF filled.ok THEN call
                              ELSE [call EXCEPT !.ok = FALSE, !.exc = "IndexError"],
                              p.tree, Some(n - 1), filled.form_data)

\* the selected form
Form == Doc(tree).forms[Get(form) + 1]

\* browser.form_data_update(**kwargs)
form_data_update(kwargs) ==
    IF form = None
    THEN assert_form("form_data_update")
    ELSE Finish(Returned("form_data_update"), tree, form, Update(form_data, kwargs))

\* Browser._form_dropdown_options_raw: the option nodes of the select of
\* form f with that name
form_dropdown_options_raw(f, select_name) ==
    LET named == {i \in DOMAIN f.selects : f.selects[i].name = select_name}
    IN IF named = {} THEN <<>> ELSE f.selects[FirstIndex(named)].options

\* browser.form_dropdown_options(select_name)
form_dropdown_options(select_name) ==
    IF form = None
    THEN assert_form("form_dropdown_options")
    ELSE Finish(Returned("form_dropdown_options"), tree, form, form_data)

\* browser.form_fill_dropdown(select_name, option_title)
form_fill_dropdown(select_name, option_title) ==
    IF form = None
    THEN assert_form("form_fill_dropdown")
    ELSE LET nodes == form_dropdown_options_raw(Form, select_name)
             n == IF option_title = None THEN ListIndex(nodes, 0)
                  ELSE FirstIndex({i \in DOMAIN nodes :
                                      nodes[i].text = Get(option_title)})
         IN IF n = 0
            THEN Finish(Raised("form_fill_dropdown", "IndexError"),
                        tree, form, form_data)
            ELSE Finish(Returned("form_fill_dropdown"), tree, form,
                        Update(form_data,
                               [k \in {select_name} |-> nodes[n].value]))

\* Browser.url
url == IF canned_url # None THEN canned_url ELSE curl.EFFECTIVE_URL

\* Browser.form_submit_data, called with form data fd in place
form_submit_data(call, method, action, fd) ==
    IF action = None
    THEN Finish([call EXCEPT !.ok = FALSE,
                             !.exc = "AssertionError: action must be supplied"],
                tree, form, fd)
    ELSE \E r \in go(Get(action), method, DictData(fd), FALSE) :
            Navigate(r, tree, fd, call, Get(action), method)

\* the position in submits of the button form_submit takes, or 0 for an
\* IndexError
submit_index(submits, submit_button) ==
    IF submit_button.kind = "none" THEN ListIndex(submits, 0)
    ELSE IF submit_button.kind = "int" THEN ListIndex(submits, submit_button.i)
    ELSE FirstIndex({i \in DOMAIN submits :
                        submit_button.s \in {Get(v) : v \in {submits[i].name,
                                                             submits[i].value} \ {None}}})

\* the pair form_submit adds for a button that has a name
button_pair(submit) ==
    IF submit.name # None
    THEN [k \in {Get(submit.name)} |->
             IF submit.value # None THEN Get(submit.value) ELSE ""]
    ELSE EmptyDict

\* the list of buttons without the assertion that there is one
form_submits_unchecked(f) == [ok |-> TRUE, submits |-> f.submits]

\* Browser.form_submits of form f: the assertion that it has a submit button,
\* and the list of its buttons
form_submits(f) == [ok |-> Len(f.submits) > 0, submits |-> f.submits]

\* browser.form_submit(submit_button)
form_submit(submit_button) ==
    IF form = None
    THEN assert_form("form_submit")
    ELSE LET checked == form_submits(Form)
             submits == checked.submits
             n == IF Len(submits) > 0 THEN submit_index(submits, submit_button) ELSE 0
         IN IF ~checked.ok
            THEN Finish(Raised("form_submit", "AssertionError: no submit button"),
                        tree, form, form_data)
            ELSE IF ~(Len(submits) <= 1 \/ submit_button.kind # "none")
            THEN Finish(Raised("form_submit", "AssertionError: implicit submit"),
                        tree, form, form_data)
            ELSE IF Len(submits) > 0 /\ n = 0
            THEN Finish(Raised("form_submit", "IndexError"), tree, form, form_data)
            ELSE form_submit_data(
                    [Returned("form_submit") EXCEPT
                        !.button = IF Len(submits) > 0 THEN Some(submits[n]) ELSE None],
                    Form.method,
                    IF Form.action # None THEN Form.action ELSE url,
                    IF Len(submits) > 0
                    THEN Update(form_data, button_pair(submits[n]))
                    ELSE form_data)

\* browser.form_submit_no_button()
form_submit_no_button ==
    IF form = None
    THEN assert_form("form_submit_no_button")
    ELSE form_submit_data(Returned("form_submit_no_button"), Form.method,
                          Form.action, form_data)

\* the hrefs of the nodes self.xpath(xpath) returns, for the two arguments of
\* follow_link in use: a link text and the path expression '//a'
link_hrefs(doc, name_or_xpath) ==
    IF name_or_xpath = "//a"
    THEN IF DOMAIN doc.links = {} THEN <<>>
         ELSE <<doc.links[CHOOSE k \in DOMAIN doc.links : TRUE]>>
    ELSE IF name_or_xpath \in DOMAIN doc.links
         THEN <<doc.links[name_or_xpath]>>
         ELSE <<>>

\* browser.follow_link(name_or_xpath)
follow_link(name_or_xpath) ==
    LET p == parse_tree
        call == [Returned("follow_link") EXCEPT !.built = p.built]
    IN IF ~p.ok
       THEN Finish(Raised("follow_link", "ParserError"), p.tree, form, form_data)
       ELSE LET hrefs == link_hrefs(Doc(p.tree), name_or_xpath)
            IN IF hrefs = <<>>
               THEN Finish([call EXCEPT !.ok = FALSE, !.exc = "IndexError"],
                           p.tree, form, form_data)
               ELSE \E r \in go(hrefs[1], "GET", NoData, FALSE) :
                       Navigate(r, p.tree, form_data, call, hrefs[1], "GET")

\* the arguments the form operations are called with
FormSelectors == {SelInt(0), SelStr("find"), SelInt(2), SelStr("broken"), SelInt(4)}
SubmitSelectors == {SelNone, SelInt(1), SelStr("save"), SelStr("cancel")}
FieldUpdates == {[k \in {"user"} |-> "bob"]}
LinkNames == {"next", "//a"}
DropdownNames == {"sort"}
OptionTitles == {None, Some("Descending"), Some("Missing")}

\* the registrations and navigations of the tests of the form operations
FormRegistrations ==
    { Call(CanForms, UrlSearch, "GET", ArgNone),
      Call(CanCats, UrlSearch, "POST", ArgCat) }
FormNavigations == {Call(CannedResponse, UrlSearch, "GET", ArgNone)}

\* the registrations and navigations of the tests of the live fetch
FetchRegistrations ==
    { Call(CanForms, UrlSearch, "GET", ArgNone),
      Call(CanKeyError, UrlSearch, "POST", ArgNone) }
FetchNavigations ==
    { Call(CannedResponse, UrlSearch, "GET", ArgNone),
      Call(CannedResponse, UrlSearch, "POST", ArgNone),
      Call(CannedResponse, UrlSearchCat, "GET", ArgNone),
      Call(CannedResponse, UrlSearch, "POST", ArgCat) }

\* ------------------------------------------------------------ RestClient
\* RestClient.base, and the objects, uids and bodies of the calls
RestBase == "http://x"
RestObjs == {"item"}
RestUids == {"1"}
RestData == {<<"q=cat">>, <<"q=dog">>}
CanMissing == [CannedResponse EXCEPT !.code = 404]
RestRegistrations == {Call(CanMissing, U("http://x/item/1", None), "GET", ArgNone)}

\* the url RestClient.go builds
rest_url(obj, uid) ==
    U(RestBase \o "/" \o obj \o (IF uid # None THEN "/" \o Get(uid) ELSE ""), None)

\* RestClient.go(obj, uid) as part of the verb op, which has left the options
\* c on the curl handle: Browser.go(url), then the test of the status code
rest_go(op, obj, uid, c) ==
    \E r \in go_from(c, rest_url(obj, uid), "GET", NoData, FALSE) :
        Navigate(IF r.ok /\ r.code # 200
                 THEN [r EXCEPT !.ok = FALSE, !.exc = "TypeError"] ELSE r,
                 tree, form_data, Returned(op), rest_url(obj, uid), "GET")

\* RestClient.get(obj, uid)
rest_get(obj, uid) ==
    rest_go("get", obj, uid, [curl EXCEPT !.CUSTOMREQUEST = Some("GET")])

\* RestClient.head(obj, uid)
rest_head(obj, uid) ==
    rest_go("head", obj, uid,
            [curl EXCEPT !.NOBODY = 1, !.CUSTOMREQUEST = Some("HEAD")])

\* RestClient.post(obj, data)
rest_post(obj, data) ==
    rest_go("post", obj, None,
            [curl EXCEPT !.CUSTOMREQUEST = Some("POST"), !.POSTFIELDS = data])

\* RestClient.put(obj, uid, data)
rest_put(obj, uid, data) ==
    rest_go("put", obj, Some(uid),
            [curl EXCEPT !.CUSTOMREQUEST = Some("PUT"), !.POSTFIELDS = data])

\* RestClient.delete(obj, uid)
rest_delete(obj, uid) ==
    rest_go("delete", obj, Some(uid),
            [curl EXCEPT !.CUSTOMREQUEST = Some("DELETE")])

\* the payloads post_best_fit is applied to
FitInputs == {<<"q=cat">>, <<"q=cat", "sort=asc">>,
              <<"q=cat", "sort=asc", "user=bob">>, <<"">>}
FitPool == {<<"q=cat">>, <<"sort=asc">>, <<"q=cat", "sort=asc">>,
            <<"sort=asc", "q=cat">>, <<"q=cat", "q=cat">>, <<"user=bob">>,
            <<"">>}
FitRefs == {d_ref \in SUBSET FitPool : Cardinality(d_ref) <= MaxRefs}

\* post_best_fit(d_in, *d_ref), applied on its own
best_fit(d_in, d_ref) ==
    /\ \/ \E d \in post_best_fit(d_in, d_ref) :
            last' = [Returned("post_best_fit") EXCEPT
                       !.data = d_in, !.refs = d_ref, !.fit = d]
       \/ /\ post_best_fit(d_in, d_ref) = {}
          /\ last' = [Raised("post_best_fit", "IndexError") EXCEPT
                        !.data = d_in, !.refs = d_ref]
    /\ UNCHANGED <<cans, offline, retries, src, tree, form, form_data,
                   roundtrip, canned_url, curl>>

\* the browser driven through its registry and go()
Next ==
    \/ \E g \in Registrations :
          add_canned_response(g.can, g.url, g.method, g.arg.data, g.arg.escaped)
    \/ \E b \in BOOLEAN : set_offline(b)
    \/ \E g \in Navigations : Go(g.url, g.method, g.arg.data, g.arg.escaped)

Spec == Init /\ [][Next]_vars

\* the browser driven through its retry budget and go()
NextFetch ==
    \/ \E g \in FetchRegistrations :
          add_canned_response(g.can, g.url, g.method, g.arg.data, g.arg.escaped)
    \/ \E b \in BOOLEAN : set_offline(b)
    \/ \E n \in 0..MaxRetries : set_retries(n)
    \/ \E g \in FetchNavigations : Go(g.url, g.method, g.arg.data, g.arg.escaped)

SpecFetch == Init /\ [][NextFetch]_vars

\* the browser driven through its page and form operations
NextForms ==
    \/ \E g \in FormRegistrations :
          add_canned_response(g.can, g.url, g.method, g.arg.data, g.arg.escaped)
    \/ \E b \in BOOLEAN : set_offline(b)
    \/ \E g \in FormNavigations : Go(g.url, g.method, g.arg.data, g.arg.escaped)
    \/ parse
    \/ \E idx \in FormSelectors : form_select(idx)
    \/ \E kwargs \in FieldUpdates : form_data_update(kwargs)
    \/ \E select_name \in DropdownNames : form_dropdown_options(select_name)
    \/ \E select_name \in DropdownNames, option_title \in OptionTitles :
          form_fill_dropdown(select_name, option_title)
    \/ \E submit_button \in SubmitSelectors : form_submit(submit_button)
    \/ form_submit_no_button
    \/ \E name_or_xpath \in LinkNames : follow_link(name_or_xpath)

SpecForms == Init /\ [][NextForms]_vars

NextFit == \E d_in \in FitInputs, d_ref \in FitRefs : best_fit(d_in, d_ref)

SpecFit == Init /\ [][NextFit]_vars

\* the RestClient driven through its verbs
NextRest ==
    \/ \E g \in RestRegistrations :
          add_canned_response(g.can, g.url, g.method, g.arg.data, g.arg.escaped)
    \/ \E obj \in RestObjs, uid \in {None} \cup {Some(u) : u \in RestUids} :
          rest_get(obj, uid)
    \/ \E obj \in RestObjs, uid \in {None} \cup {Some(u) : u \in RestUids} :
          rest_head(obj, uid)
    \/ \E obj \in RestObjs, data \in RestData : rest_post(obj, data)
    \/ \E obj \in RestObjs, uid \in RestUids, data \in RestData :
          rest_put(obj, uid, data)
    \/ \E obj \in RestObjs, uid \in RestUids : rest_delete(obj, uid)

SpecRest == Init /\ [][NextRest]_vars

\* ------------------------------------------------------------- properties
\* the calls that navigate
NavOps == {"go", "form_submit", "form_submit_no_button", "follow_link"}

\* the registry key made of the arguments of the last go()
AskedKey == Key(Get(last.url), last.method, last.data)

\* the last go() ended as a replay of the response registered under key k
Replays(k) == last.ok /\ last.code = cans[k].code /\ src = cans[k].src

\* C1: a go(url, method, payload) whose arguments are a registered key replays
\* the response (status code and body) registered under that key, never
\* another response or an error
C1_ExactKeyRoundTrip ==
    (last.op = "go" /\ AskedKey \in DOMAIN cans
                    /\ cans[AskedKey].exception = None)
        => Replays(AskedKey)

\* the registered keys with the url and method of the last go() and a payload
AskedCandidates ==
    {k \in DOMAIN cans : k.url = Get(last.url) /\ k.method = last.method
                         /\ k.data # None}

\* C2: a go(url, method, P) replays the response registered under
\* (url, method, R) when every token of R is a token of P and no other key
\* registered for (url, method) is closer to P in length; GET included
C2_SubsetFallback ==
    (last.op = "go" /\ last.data # None) =>
        \A k \in AskedCandidates :
            ( /\ setify(k.data) \subseteq setify(last.data)
              /\ cans[k].exception = None
              /\ \A o \in AskedCandidates \ {k} :
                    Abs(StrLen(o.data) - StrLen(last.data))
                        >= Abs(StrLen(k.data) - StrLen(last.data)) )
            => Replays(k)

\* no registered key matches the last go(): none is the asked key, and none
\* has its url (as asked or as rewritten for a GET), its method and a payload
\* whose tokens are all in the payload asked
NoCannedMatch ==
    \A k \in DOMAIN cans :
        (k.url \in {Get(last.url), Get(last.rurl)} /\ k.method = Upper(last.method))
            => /\ k.data # last.data
               /\ k.data = None \/ last.data = None
                    \/ ~(setify(k.data) \subseteq setify(last.data))

\* C3: a go() that finds no canned match raises the offline no-match error
\* when offline and goes on to the live fetch when not; nothing else escapes
\* from the lookup
C3_MissRouting ==
    (last.op = "go" /\ NoCannedMatch) =>
        IF offline THEN ~last.ok /\ last.exc = "LookupError" /\ ~last.live
        ELSE last.live

\* C4: a live fetch with retry budget N makes between 1 and N+1 perform()
\* calls, one after the other; it stops at the first that succeeds and returns
\* its status code; when all N+1 fail it raises the error of the last one
C4_RetryPolicy ==
    last.live =>
        LET n == Len(last.trace)
        IN /\ 1 <= n /\ n <= last.budget + 1
           /\ \A i \in 1..(n - 1) : ~last.trace[i].ok
           /\ last.ok => last.trace[n].ok /\ last.code = last.trace[n].code
           /\ ~last.ok => /\ n = last.budget + 1
                          /\ ~last.trace[n].ok
                          /\ last.exc = last.trace[n].err

\* a fetch that used up a budget of MaxRetries and raised the last of
\* differing errors
C4_Witness ==
    /\ last.live /\ ~last.ok
    /\ last.budget = MaxRetries
    /\ Len(last.trace) = MaxRetries + 1
    /\ last.trace[1].err # last.trace[MaxRetries + 1].err

\* C5: after a navigation (go, form_submit, form_submit_no_button or
\* follow_link) that returns a status code, no form is selected, the form
\* data are empty and no tree is cached
C5_ResetOnNavigation ==
    (last.op \in NavOps /\ last.ok) =>
        form = None /\ form_data = EmptyDict /\ tree = None

\* a form submission that was replayed from a canned response
C5_Witness ==
    /\ last.op = "form_submit" /\ last.ok /\ last.can # None
    /\ form = None /\ last.button # None

\* the token a named button adds to the payload
ButtonToken(b) ==
    Get(b.name) \o "=" \o (IF b.value # None THEN quote_plus(Get(b.value)) ELSE "")

\* a call that issued no request left the buffer, the curl handle and the
\* page as they were
NoRequest ==
    /\ last'.url = None /\ ~last'.live /\ last'.trace = <<>>
    /\ UNCHANGED <<src, curl, canned_url, roundtrip, tree, form, form_data>>

C7_OnlyClickedButton ==
    [][(form # None /\ last'.op = "form_submit" /\ last'.url # None
                    /\ last'.button # None) =>
          LET clicked == Get(last'.button)
          IN /\ clicked.name # None => ButtonToken(clicked) \in setify(last'.data)
             /\ \A n \in DOMAIN Form.submits :
                   (Form.submits[n] # clicked /\ Form.submits[n].name # None)
                      => ButtonToken(Form.submits[n]) \notin setify(last'.data)]_vars

\* the last go() ended on a canned response whose exception is set
ScriptedFailure ==
    /\ last.op = "go" /\ last.can # None
    /\ cans[Get(last.can)].exception # None

\* C8: a go() that resolves to a canned response with an exception raises
\* that exception, of whatever kind: no perform(), no retry loop, no offline
\* no-match error, no reset
C8_ScriptedFailure ==
    [][ScriptedFailure' =>
          /\ ~last'.ok
          /\ last'.exc = Get(cans[Get(last'.can)].exception)
          /\ ~last'.live /\ last'.trace = <<>>
          /\ UNCHANGED <<tree, form, form_data, roundtrip>>]_vars

\* C9: while offline, no navigation makes a transport call; with an empty
\* registry every navigation raises the offline no-match error
C9_OfflineIsolation ==
    (last.op \in NavOps /\ last.url # None /\ offline) =>
        /\ ~last.live /\ last.trace = <<>>
        /\ cans = EmptyDict => ~last.ok /\ last.exc = "LookupError"

\* reset() ran in the step: a navigation returned a status code
ResetStep == last'.op \in NavOps /\ last'.ok

\* C10: a cached tree is never rebuilt: a tree is built only when none is
\* cached, and a cached tree stays the same until a navigation resets it
C10_LazyParse ==
    [][/\ last'.built => tree = None
       /\ tree # None => \/ tree' = tree /\ ~last'.built
                         \/ tree' = None /\ ResetStep]_vars

\* a parse() that found the tree cached and returned
C10_Witness ==
    last.op = "parse" /\ last.ok /\ ~last.built /\ tree # None

\* the operations that need a selected form
FormOps == {"form_data_update", "form_fill_dropdown", "form_dropdown_options",
            "form_submit", "form_submit_no_button"}

\* C11: with no form selected, form_data_update, form_fill_dropdown,
\* form_dropdown_options, form_submit and form_submit_no_button raise the
\* no-form-selected error, issue no request and leave the form data as they
\* were; a navigation that returns a status code leaves no form selected
C11_FormOrdering ==
    [][/\ (form = None /\ last'.op \in FormOps) =>
             /\ ~last'.ok
             /\ last'.exc = "AssertionError: A form must be selected"
             /\ last'.url = None /\ ~last'.live /\ last'.trace = <<>>
             /\ UNCHANGED <<src, curl, form, form_data>>
       /\ ResetStep => form' = None]_vars

\* C12: post_best_fit returns a reference every token of which is a token of
\* the incoming payload and whose length is nearest to the payload's among the
\* references that are such subsets; it raises only when no reference is a
\* subset
C12_BestFit ==
    last.op = "post_best_fit" =>
        LET P == last.data
            subs == {c \in last.refs :
                       \A i \in DOMAIN c : \E j \in DOMAIN P : c[i] = P[j]}
        IN /\ last.ok =>
                /\ last.fit \in subs
                /\ \A o \in subs : Abs(StrLen(last.fit) - StrLen(P))
                                     <= Abs(StrLen(o) - StrLen(P))
           /\ ~last.ok => subs = {} /\ last.exc = "IndexError"

\* the best fit was chosen among two subsets of different distance, with a
\* reference that is not a subset left out
C12_Witness ==
    /\ last.op = "post_best_fit" /\ last.ok
    /\ last.data = <<"q=cat", "sort=asc">>
    /\ last.refs = {<<"q=cat">>, <<"sort=asc", "q=cat">>, <<"user=bob">>}
    /\ last.fit = <<"sort=asc", "q=cat">>

\* the registry without the keys that have the url and method the last go()
\* looked up and no payload
WithoutAbsentPayload ==
    LET keep == {k \in DOMAIN cans :
                   ~(k.url = Get(last.rurl) /\ k.method = Upper(last.method)
                                            /\ k.data = None)}
    IN [k \in keep |-> cans[k]]

\* C13: a key registered without a payload is no candidate of the fallback:
\* a go() with a payload ends on the response, or on the miss, it would end on
\* were that key not registered
C13_AbsentPayloadExcluded ==
    (last.op = "go" /\ last.data # None) =>
        LET sel == select_best_can(Get(last.rurl), Upper(last.method),
                                   last.data, WithoutAbsentPayload)
        IN IF sel.res = "can"
           THEN last.can \in {Some(k) : k \in sel.keys}
           ELSE last.can = None /\ last.exc = sel.res

\* C14: form_submit_no_button requests the url form_submit would request (the
\* action the form declares, else the url of the session), with the method of
\* the form and the form data as they are, and takes no button
C14_NoButtonSameAction ==
    [][(form # None /\ last'.op = "form_submit_no_button") =>
          LET action == IF Form.action # None THEN Form.action ELSE url
          IN /\ last'.url = action
             /\ last'.button = None
             /\ action # None =>
                   /\ last'.method = Form.method
                   /\ last'.data = escape_data(DictData(form_data), FALSE)]_vars

\* the form data a form starts with: the value of each of its fields, and for
\* each of its selects the value of the first option
FormDefaults(f) ==
    LET selected == {i \in DOMAIN f.selects : f.selects[i].options # <<>>}
        names == {f.selects[i].name : i \in selected}
    IN [k \in DOMAIN f.fields \cup names |->
          IF k \in names
          THEN f.selects[CHOOSE i \in selected : f.selects[i].name = k].options[1].value
          ELSE f.fields[k]]

\* C15: a form_select that returns leaves the form data equal to the defaults
\* of the form it selected, whatever they were before; a form_select that
\* raises (no such form, or a select of the form has no option) leaves the
\* selected form and the form data as they were
C15_FormSelectInit ==
    [][last'.op = "form_select" =>
          IF last'.ok
          THEN /\ form' # None
               /\ form_data' = FormDefaults(Doc(tree').forms[Get(form') + 1])
          ELSE UNCHANGED <<form, form_data>>]_vars

\* C16: after a navigation that went to the transport, roundtrip is the time
\* the whole loop took (one tick of the clock per perform() call), whether the
\* loop ended in a response or in the last error; after a replay it is the
\* roundtrip of the can replayed
C16_Roundtrip ==
    last.op \in NavOps =>
        /\ last.live => roundtrip = Some(Len(last.trace))
        /\ (~last.live /\ last.ok /\ last.can # None) =>
              roundtrip = Some(cans[Get(last.can)].roundtrip)

C18_DocumentConsistency ==
    [][/\ tree' # None => Get(tree').src = src'
       /\ (last'.op \in NavOps /\ ~last'.ok) =>
             UNCHANGED <<src, tree, form, form_data>>
       /\ (last'.op \in NavOps /\ last'.ok /\ last'.live) =>
             src' = last'.trace[Len(last'.trace)].body]_vars

\* C19: the request body the transport is handed for a fetch (POSTFIELDS of
\* the curl handle when perform() is called) is the encoded payload of that
\* call when its method is not GET and it has a payload, and none otherwise
C19_NoBodyLeak ==
    (last.op \in NavOps /\ last.live) =>
        curl.POSTFIELDS = IF Upper(last.method) # "GET" /\ last.data # None
                          THEN last.data ELSE None

\* the HTTP method of each verb of the RestClient
RestMethod ==
    [op \in {"get", "head", "post", "put", "delete"} |->
        CASE op = "get" -> "GET" [] op = "head" -> "HEAD" [] op = "post" -> "POST"
          [] op = "put" -> "PUT" [] op = "delete" -> "DELETE"]

\* C20: a verb of the RestClient that goes to the transport is performed with
\* the HTTP method of the verb and with options that depend on that call
\* alone: the body is left out for head only, a request body is sent for post
\* and put only, and a get that returns holds the body of the response
C20_RestVerbs ==
    (last.op \in DOMAIN RestMethod /\ last.live) =>
        /\ curl.CUSTOMREQUEST = Some(RestMethod[last.op])
        /\ curl.NOBODY = IF last.op = "head" THEN 1 ELSE 0
        /\ last.op \in {"get", "head", "delete"} => curl.POSTFIELDS = None
        /\ (last.op = "get" /\ last.ok) =>
              src = last.trace[Len(last.trace)].body

====
